---- MODULE Spec2Model ----
(***************************************************************************)
(* django-datajsonar: the hierarchical loader of                           *)
(* indexing/database_loader.py (DatabaseLoader) and the schedule_indexation *)
(* management command, as a state machine.                                 *)
(*                                                                         *)
(* The relational store is four tables (Catalog, Dataset, Distribution,    *)
(* Field) of rows with a surrogate primary key (the row's index) and a     *)
(* foreign key to the parent row.  A DatabaseLoader walks the metadata tree *)
(* depth first; every storage call and every fetch is one step.            *)
(*                                                                         *)
(* Python values: None is <<>>, identifiers, titles, payloads and digests  *)
(* are tagged tuples, a dict is a record (a function on its keys).         *)
(***************************************************************************)
EXTENDS Integers, Sequences, FiniteSets, TLC

VARIABLES
    catalogs,       \* table Catalog
    datasets,       \* table Dataset
    distributions,  \* table Distribution
    fields,         \* table Field
    files,          \* what each download URL serves now
    task,           \* the ReadDataJsonTask of the loader: its log entries
    clock,          \* timezone.now(): advances with every run
    ld,             \* the DatabaseLoader objects and the frames of their run
    lastRun,        \* history: per catalog identifier, the last finished run
    fetchHistory,   \* history: per Distribution row, indexable after each saved fetch
    obs,            \* history: per loader, what its current run has done
    budget,         \* what the exploration has used of its bounds
    jobs,           \* table RepeatableJob (scheduler)
    interpreter,    \* the Python major version running the command
    invocation      \* history: the last schedule_indexation invocation

vars == <<catalogs, datasets, distributions, fields, files, task, clock, ld,
          lastRun, fetchHistory, obs, budget, jobs, interpreter, invocation>>

loaderVars == <<catalogs, datasets, distributions, fields, files, task, clock,
                ld, lastRun, fetchHistory, obs, budget>>

schedulerVars == <<jobs, interpreter, invocation>>

----------------------------------------------------------------------------
(* Bounds of the exploration *)

MaxRuns == 3            \* runs of the loader
MaxNodes == 9           \* nodes of all the trees handed to the loader
MaxCatalogs == 2        \* catalog identifiers
MaxDatasets == 3        \* datasets of a catalog
MaxDistributions == 2   \* distributions of a dataset
MaxFields == 1          \* fields of a distribution
MaxPayloads == 2        \* versions of a file
MaxFaults == 1          \* storage calls and fetches that raise

----------------------------------------------------------------------------
(* Python values *)

None == <<>>

\* dict.get(key, default)
get(d, key, default) == IF key \in DOMAIN d THEN d[key] ELSE default

\* dict.pop(key, None): the dict afterwards
pop(d, key) == [k \in DOMAIN d \ {key} |-> d[k]]

\* dict.update(other): the dict afterwards
Merge(d, other) ==
    [k \in DOMAIN d \cup DOMAIN other |->
        IF k \in DOMAIN other THEN other[k] ELSE d[k]]

\* json.dumps of a dict: the text is a tagged copy of the key/value pairs
json_dumps(d) == <<"json", d>>

\* the keys present in a stored metadata text
MetadataKeys(text) == IF text = None THEN {} ELSE DOMAIN text[2]

\* hashlib.sha512(...).hexdigest(): collision free on the payloads explored
sha512(content) == <<"sha512", content>>

----------------------------------------------------------------------------
(* Configuration and key names *)

DATASET == "dataset"
DISTRIBUTION == "distribution"
FIELD == "field"
IDENTIFIER == "identifier"
DOWNLOAD_URL == "downloadURL"
TITLE == "title"

CATALOG_BLACKLIST == {"themeTaxonomy"}
DATASET_BLACKLIST == {"landingPage"}
DISTRIBUTION_BLACKLIST == {"scrapingFileSheet"}
FIELD_BLACKLIST == {"scrapingDataStartCell", "scrapingIdentifierCell"}

\* the datasets whose new row is marked indexable (Dataset.indexable is set
\* outside the loader): those of odd rank
INDEXABLE_DATASETS == {<<"d", i>> : i \in {n \in 1..MaxDatasets : n % 2 = 1}}

\* getattr(settings, 'DATAJSON_AR_TIME_SERIES_ONLY', False)
DATAJSON_AR_TIME_SERIES_ONLY == FALSE

----------------------------------------------------------------------------
(* The input trees: catalog -> dataset -> distribution -> field.  Siblings *)
(* carry distinct identifiers; the same identifiers recur under every      *)
(* parent.                                                                 *)

FieldDict(k) ==
    [id |-> <<"f", k>>, title |-> <<"field title", k>>,
     scrapingDataStartCell |-> <<"cell", k>>]

DistributionDict(j, nf) ==
    [identifier |-> <<"x", j>>, title |-> <<"title">>,
     downloadURL |-> <<"url", j>>, scrapingFileSheet |-> <<"sheet", j>>,
     field |-> [k \in 1..nf |-> FieldDict(k)]]

DatasetDict(i, nx, nf) ==
    [identifier |-> <<"d", i>>, title |-> <<"title">>,
     landingPage |-> <<"page", i>>,
     distribution |-> [j \in 1..nx |-> DistributionDict(j, nf)]]

CatalogDict(nd, nx, nf) ==
    [title |-> <<"title">>, themeTaxonomy |-> <<"taxonomy">>,
     dataset |-> [i \in 1..nd |-> DatasetDict(i, nx, nf)]]

CatalogIds == {<<"c", n>> : n \in 1..MaxCatalogs}
Urls == {<<"url", j>> : j \in 1..MaxDistributions}

\* the number of nodes of a tree
Size(catalog) ==
    LET sizeX(x) == 1 + Len(x.field)
        sizeD(d) == 1 + (IF d.distribution = <<>> THEN 0
                         ELSE Len(d.distribution) * sizeX(d.distribution[1]))
    IN  1 + (IF catalog.dataset = <<>> THEN 0
             ELSE Len(catalog.dataset) * sizeD(catalog.dataset[1]))

\* the trees: every dataset with as many distributions, every distribution
\* with as many fields
Trees ==
    {CatalogDict(0, 0, 0)}
    \cup {CatalogDict(nd, 0, 0) : nd \in 1..MaxDatasets}
    \cup UNION {{CatalogDict(nd, nx, nf) : nf \in 0..MaxFields} :
            <<nd, nx>> \in (1..MaxDatasets) \X (1..MaxDistributions)}

----------------------------------------------------------------------------
(* The storage layer: Django's ORM on the four tables *)

NoTitle == <<"No Title">>
NoFile == [content |-> None, committed |-> TRUE, name |-> None]

\* File(f), lines 165 and 178: a new file object, not yet in the storage; the
\* storage gives the file of every run a name of its own
File(content, now) ==
    [content |-> content, committed |-> FALSE, name |-> <<"file", now>>]

\* the column defaults of a new row
BlankCatalog ==
    [identifier |-> None, title |-> None, metadata |-> None, updated |-> FALSE]

BlankDataset(indexable) ==
    [catalog |-> None, identifier |-> None, title |-> None, metadata |-> None,
     updated |-> FALSE, indexable |-> indexable]

BlankDistribution ==
    [dataset |-> None, identifier |-> None, title |-> None,
     download_url |-> None, metadata |-> None, updated |-> FALSE,
     data_hash |-> None, indexable |-> FALSE, last_updated |-> None,
     data_file |-> NoFile]

BlankField ==
    [distribution |-> None, identifier |-> None, title |-> None,
     metadata |-> None, updated |-> FALSE]

\* QuerySet.filter(**key): the primary keys of the matching rows
filter(table, key) ==
    {pk \in DOMAIN table : \A k \in DOMAIN key : table[pk][k] = key[k]}

\* Model.save(): the row of the object's primary key takes all its fields
save(table, obj) == [table EXCEPT ![obj.pk] = obj]

\* QuerySet.create(**values)
create(table, values, blank) ==
    LET obj == Merge([pk |-> Len(table) + 1], Merge(blank, values))
    IN  [table |-> Append(table, obj), obj |-> obj, created |-> TRUE]

\* QuerySet.update_or_create(defaults=defaults, **key)
update_or_create(table, key, defaults, blank) ==
    LET found == filter(table, key)
    IN  IF found = {}
        THEN create(table, Merge(key, defaults), blank)
        ELSE LET obj == Merge(table[CHOOSE pk \in found : TRUE], defaults)
             IN  [table |-> save(table, obj), obj |-> obj, created |-> FALSE]

\* QuerySet.get_or_create(defaults=defaults, **key)
get_or_create(table, key, defaults, blank) ==
    LET found == filter(table, key)
    IN  IF found = {}
        THEN create(table, Merge(key, defaults), blank)
        ELSE [table |-> table, obj |-> table[CHOOSE pk \in found : TRUE],
              created |-> FALSE]

\* FileField.pre_save, part of Distribution.save(): an uncommitted file is
\* written to the storage
commit_file(obj) == [obj EXCEPT !.data_file.committed = TRUE]

----------------------------------------------------------------------------
(* indexing/utils.py *)

\* update_model(created, trimmed_dict, model, updated_children, data_change):
\* the object as it is saved
update_model(created, trimmed_dict, model, updated_children, data_change) ==
    [model EXCEPT !.metadata = json_dumps(trimmed_dict),
                  !.updated = created \/ updated_children \/ data_change]

\* log_exception(task, msg, model, identifier): the task's log afterwards
log_exception(t, msg, model, identifier) ==
    Append(t, [level |-> "error", msg |-> msg, model |-> model,
               identifier |-> identifier])

\* ReadDataJsonTask.info(task, msg)
info(t, msg) ==
    Append(t, [level |-> "info", msg |-> msg, model |-> None,
               identifier |-> None])

----------------------------------------------------------------------------
(* DatabaseLoader: the pure parts *)

\* _remove_blacklisted_fields(metadata, blacklist): pops in place and
\* returns the same dict
_remove_blacklisted_fields(metadata, blacklist) ==
    [k \in DOMAIN metadata \ blacklist |-> metadata[k]]

\* children=None, the default of _trim_dict_fields: a falsy key name
NoChildren == ""

\* _trim_dict_fields without the copy of line 200: the caller's dict is the
\* one trimmed
_trim_dict_fields_no_copy(full_dict, blacklist, children) ==
    LET popped == IF children # NoChildren THEN pop(full_dict, children)
                  ELSE full_dict
        trimmed == _remove_blacklisted_fields(popped, blacklist)
    IN  [trimmed |-> trimmed, full_dict |-> trimmed]

\* _trim_dict_fields(full_dict, blacklist, children): the trimmed copy, and
\* the caller's dict as the call leaves it
_trim_dict_fields(full_dict, blacklist, children) ==
    LET copy == full_dict
        popped == IF children # NoChildren THEN pop(copy, children) ELSE copy
    IN  [trimmed |-> _remove_blacklisted_fields(popped, blacklist),
         full_dict |-> full_dict]

\* DataJson.get_datasets(only_time_series=False)
get_datasets(catalog) == get(catalog, DATASET, <<>>)

\* update_or_create looking the dataset up by identifier alone, the catalog
\* among the defaults
DatasetUpsertArgs_by_identifier(catalog_model, trimmed_dataset) ==
    [key |-> [identifier |-> trimmed_dataset[IDENTIFIER]],
     defaults |-> [catalog |-> catalog_model.pk,
                   title |-> get(trimmed_dataset, TITLE, NoTitle)]]

\* the arguments of Dataset.objects.update_or_create, lines 82-86
DatasetUpsertArgs(catalog_model, trimmed_dataset) ==
    [key |-> [catalog |-> catalog_model.pk,
              identifier |-> trimmed_dataset[IDENTIFIER]],
     defaults |-> [title |-> get(trimmed_dataset, TITLE, NoTitle)]]

\* update_or_create looking the distribution up by identifier alone, the
\* dataset among the defaults
DistributionUpsertArgs_by_identifier(dataset_model, trimmed_distribution) ==
    [key |-> [identifier |-> trimmed_distribution[IDENTIFIER]],
     defaults |-> [dataset |-> dataset_model.pk,
                   title |-> get(trimmed_distribution, TITLE, None),
                   download_url |->
                       get(trimmed_distribution, DOWNLOAD_URL, None)]]

\* update_or_create without download_url among the defaults
DistributionUpsertArgs_no_url(dataset_model, trimmed_distribution) ==
    [key |-> [dataset |-> dataset_model.pk,
              identifier |-> trimmed_distribution[IDENTIFIER]],
     defaults |-> [title |-> get(trimmed_distribution, TITLE, None)]]

\* the arguments of Distribution.objects.update_or_create, lines 107-117
DistributionUpsertArgs(dataset_model, trimmed_distribution) ==
    [key |-> [dataset |-> dataset_model.pk,
              identifier |-> trimmed_distribution[IDENTIFIER]],
     defaults |-> [title |-> get(trimmed_distribution, TITLE, None),
                   download_url |->
                       get(trimmed_distribution, DOWNLOAD_URL, None)]]

\* the lookup of a Field: get_or_create(distribution=, title=, identifier=)
FieldKey(distribution_model, field) ==
    [distribution |-> distribution_model.pk, title |-> get(field, TITLE, None),
     identifier |-> get(field, "id", None)]

\* _read_file with the comparison of line 181 always true: every fetch counts
\* as a change
_read_file_always_changed(read_local, content, distribution_model, now) ==
    LET staged == [distribution_model EXCEPT
                      !.data_file = File(content, now)]
    IN  [model |-> [staged EXCEPT !.data_hash = sha512(content),
                                  !.last_updated = <<"time", now>>,
                                  !.indexable = TRUE],
         changed |-> TRUE,
         saved |-> IF (~read_local) /\ distribution_model.data_file.content # None
                   THEN [distribution_model EXCEPT !.data_file = NoFile]
                   ELSE None]

\* _read_file without the else branch of lines 186-187: indexable is left as
\* it was when the digest is the same
_read_file_without_else(read_local, content, distribution_model, now) ==
    LET data_hash == sha512(content)
        staged == [distribution_model EXCEPT
                      !.data_file = File(content, now)]
        changed == staged.data_hash # data_hash
    IN  [model |-> IF changed
                   THEN [staged EXCEPT !.data_hash = data_hash,
                                       !.last_updated = <<"time", now>>,
                                       !.indexable = TRUE]
                   ELSE staged,
         changed |-> changed,
         saved |-> IF (~read_local) /\ distribution_model.data_file.content # None
                   THEN [distribution_model EXCEPT !.data_file = NoFile]
                   ELSE None]

\* _read_file setting indexable before the comparison and never clearing it
_read_file_indexable_first(read_local, content, distribution_model, now) ==
    LET data_hash == sha512(content)
        staged == [distribution_model EXCEPT
                      !.data_file = File(content, now),
                      !.indexable = TRUE]
        changed == staged.data_hash # data_hash
    IN  [model |-> IF changed
                   THEN [staged EXCEPT !.data_hash = data_hash,
                                       !.last_updated = <<"time", now>>]
                   ELSE staged,
         changed |-> changed,
         saved |-> IF (~read_local) /\ distribution_model.data_file.content # None
                   THEN [distribution_model EXCEPT !.data_file = NoFile]
                   ELSE None]

\* _read_file(file_url, distribution_model) when the fetch succeeds with
\* `content`: the object afterwards, the value returned, and the object that
\* FieldFile.delete() saves on the way (None when it saves nothing)
_read_file(read_local, content, distribution_model, now) ==
    LET data_hash == sha512(content)
        deleted == (~read_local) /\ distribution_model.data_file.content # None
        staged == [distribution_model EXCEPT
                      !.data_file = File(content, now)]
        changed == staged.data_hash # data_hash
    IN  [model |-> IF changed
                   THEN [staged EXCEPT !.data_hash = data_hash,
                                       !.last_updated = <<"time", now>>,
                                       !.indexable = TRUE]
                   ELSE [staged EXCEPT !.indexable = FALSE],
         changed |-> changed,
         saved |-> IF deleted
                   THEN [distribution_model EXCEPT !.data_file = NoFile]
                   ELSE None]

----------------------------------------------------------------------------
(* The loader objects.  A frame holds the attributes of the DatabaseLoader  *)
(* and the local variables of the four nested calls of its run.            *)

Loaders == {"loader"}

InitFrame(read_local) ==
    [pc |-> "new", read_local |-> read_local, catalog_id |-> None,
     returned |-> None,
     \* _catalog_model
     catalog |-> None, trimmed_catalog |-> None, catalog_model |-> None,
     created |-> FALSE, datasets |-> <<>>, updated_datasets |-> FALSE,
     di |-> 0,
     \* _dataset_model
     trimmed_dataset |-> None, dataset_model |-> None,
     dataset_created |-> FALSE, updated_distributions |-> FALSE, xi |-> 0,
     \* _distribution_model
     trimmed_distribution |-> None, distribution_model |-> None,
     distribution_created |-> FALSE, data_change |-> FALSE,
     updated_fields |-> FALSE, fi |-> 0]

\* the locals of a call are gone when it returns
LeaveDistribution(f) ==
    [f EXCEPT !.trimmed_distribution = None, !.distribution_model = None,
              !.distribution_created = FALSE, !.data_change = FALSE,
              !.updated_fields = FALSE, !.fi = 0]

LeaveDataset(f) ==
    [f EXCEPT !.trimmed_dataset = None, !.dataset_model = None,
              !.dataset_created = FALSE, !.updated_distributions = FALSE,
              !.xi = 0]

LeaveCatalog(f) ==
    [f EXCEPT !.catalog = None, !.trimmed_catalog = None,
              !.catalog_model = None, !.created = FALSE, !.datasets = <<>>,
              !.updated_datasets = FALSE, !.di = 0]

InitObs ==
    [input |-> None, catalog_id |-> None, seen |-> None,
     pre |-> [catalogs |-> <<>>, datasets |-> <<>>, distributions |-> <<>>,
              fields |-> <<>>],
     loglen |-> 0, files |-> None,
     prev |-> None, rows |-> {}, created |-> {}, saved |-> {}, failed |-> {},
     fetch_failed |-> {}, fetched |-> {}, changed |-> {}, writes |-> <<>>]

Idle(w) == ld[w].pc \in {"new", "done"}

\* the dataset, distribution and field the frame is at
CurDataset(f) == f.datasets[f.di]
CurDistributions(f) == get(CurDataset(f), DISTRIBUTION, <<>>)
CurDistribution(f) == CurDistributions(f)[f.xi]
CurFields(f) == get(CurDistribution(f), FIELD, <<>>)
CurField(f) == CurFields(f)[f.fi]

LoaderInit(modes) ==
    /\ catalogs = <<>>
    /\ datasets = <<>>
    /\ distributions = <<>>
    /\ fields = <<>>
    /\ files = [url \in Urls |-> <<"payload", url[2], 1>>]
    /\ task = <<>>
    /\ clock = 0
    /\ ld \in [Loaders -> {InitFrame(b) : b \in modes}]
    /\ obs = [w \in Loaders |-> InitObs]
    /\ lastRun = [c \in CatalogIds |-> None]
    /\ fetchHistory = <<>>
    /\ budget = [nodes |-> 0, faults |-> 0]

Init ==
    /\ LoaderInit(BOOLEAN)
    /\ jobs = <<>>
    /\ interpreter = 2
    /\ invocation = None

----------------------------------------------------------------------------
(* The exception handlers of the three loops: the frame and the task log   *)
(* after the handler has run                                               *)

\* _catalog_model without the try of lines 58-66: the exception leaves the
\* loop, and run, with nothing logged
_catalog_model_no_try(f, t) ==
    [frame |-> [f EXCEPT !.pc = "raised"], task |-> t]

\* _catalog_model, lines 62-66: except Exception ... log_exception ... continue
_catalog_model_except(f, t) ==
    [frame |-> [LeaveDataset(LeaveDistribution(f)) EXCEPT
                    !.pc = "datasets", !.di = f.di + 1],
     task |-> log_exception(t,
                  <<"Excepcion en dataset", get(CurDataset(f), IDENTIFIER, None)>>,
                  "Dataset", get(CurDataset(f), IDENTIFIER, None))]

\* _dataset_model leaving its loop at the first exception: break for continue
_dataset_model_except_break(f, t) ==
    [frame |-> [LeaveDistribution(f) EXCEPT
                    !.pc = "distributions",
                    !.xi = Len(CurDistributions(f)) + 1],
     task |-> log_exception(t,
                  <<"Excepcion en distribucion",
                    get(CurDistribution(f), IDENTIFIER, None)>>,
                  "Distribution", get(CurDistribution(f), IDENTIFIER, None))]

\* _dataset_model counting a distribution that raised as updated when the
\* run created it
_dataset_model_except_counts_created(f, t) ==
    [frame |-> [LeaveDistribution(f) EXCEPT
                    !.pc = "distributions", !.xi = f.xi + 1,
                    !.updated_distributions =
                        f.updated_distributions \/ f.distribution_created],
     task |-> log_exception(t,
                  <<"Excepcion en distribucion",
                    get(CurDistribution(f), IDENTIFIER, None)>>,
                  "Distribution", get(CurDistribution(f), IDENTIFIER, None))]

\* _dataset_model, lines 92-96
_dataset_model_except(f, t) ==
    [frame |-> [LeaveDistribution(f) EXCEPT
                    !.pc = "distributions", !.xi = f.xi + 1],
     task |-> log_exception(t,
                  <<"Excepcion en distribucion",
                    get(CurDistribution(f), IDENTIFIER, None)>>,
                  "Distribution", get(CurDistribution(f), IDENTIFIER, None))]

\* _distribution_model, lines 128-132
_distribution_model_except(f, t) ==
    [frame |-> [f EXCEPT !.fi = f.fi + 1],
     task |-> log_exception(t,
                  <<"Excepcion en field", get(CurField(f), TITLE, None)>>,
                  "Field", get(CurField(f), IDENTIFIER, None))]

\* line 61 without the child's flag
_catalog_model_no_or(updated_datasets, dataset_model) == updated_datasets

\* line 91 without the child's flag
_dataset_model_no_or(updated_distributions, distribution_model) ==
    updated_distributions

\* line 127 without the child's flag
_distribution_model_no_or(updated_fields, field_model) == updated_fields

\* line 61: updated_datasets = updated_datasets or dataset_model.updated
_catalog_model_or(updated_datasets, dataset_model) ==
    updated_datasets \/ dataset_model.updated

\* line 91
_dataset_model_or(updated_distributions, distribution_model) ==
    updated_distributions \/ distribution_model.updated

\* line 127
_distribution_model_or(updated_fields, field_model) ==
    updated_fields \/ field_model.updated

\* line 120: if dataset_model.indexable
\* the condition of line 119 dropped: every distribution is fetched
FetchGate_always(dataset_model) == TRUE

FetchGate(dataset_model) == dataset_model.indexable

\* a storage call or a fetch may raise: MaxFaults times in all
MayRaise == budget.faults < MaxFaults

Raised(w, path) == [obs[w] EXCEPT !.failed = @ \cup {path}]

Fault == budget' = [budget EXCEPT !.faults = @ + 1]

----------------------------------------------------------------------------
(* run(catalog, catalog_id), lines 39-40, and _catalog_model up to the top *)
(* of its loop, lines 47-57                                                *)

Run(w, catalog, catalog_id) ==
    LET f == ld[w]
        t == _trim_dict_fields(catalog, CATALOG_BLACKLIST, DATASET)
        r == update_or_create(catalogs, [identifier |-> catalog_id],
                 [title |-> get(t.trimmed, TITLE, NoTitle)], BlankCatalog)
    IN  /\ Idle(w)
        /\ clock < MaxRuns
        /\ catalog_id[2] <= Len(catalogs) + 1
        /\ budget.nodes + Size(catalog) <= MaxNodes
        /\ budget' = [budget EXCEPT !.nodes = @ + Size(catalog)]
        /\ clock' = clock + 1
        /\ catalogs' = r.table
        /\ ld' = [ld EXCEPT ![w] = [f EXCEPT
                !.pc = "datasets", !.catalog_id = catalog_id,
                !.catalog = t.full_dict, !.trimmed_catalog = t.trimmed,
                !.catalog_model = r.obj, !.created = r.created,
                !.datasets = get_datasets(t.full_dict),
                !.updated_datasets = FALSE, !.di = 1]]
        /\ obs' = [obs EXCEPT ![w] = [InitObs EXCEPT
                !.input = catalog, !.catalog_id = catalog_id,
                !.pre = [catalogs |-> catalogs, datasets |-> datasets,
                         distributions |-> distributions, fields |-> fields],
                !.loglen = Len(task), !.files = files,
                !.writes = << <<<<>>, "upsert">> >>,
                !.prev = lastRun[catalog_id],
                !.rows = {<< <<>>, r.obj.pk >>},
                !.created = IF r.created THEN {<<>>} ELSE {}]]
        /\ UNCHANGED <<datasets, distributions, fields, files, task, lastRun,
                       fetchHistory, schedulerVars>>

\* the publisher releases the next version of its data, between runs: every
\* file changes
PublishFiles ==
    /\ \A w \in Loaders : Idle(w)
    /\ clock < MaxRuns
    /\ \A url \in Urls : files[url][3] < MaxPayloads
    /\ files' = [url \in Urls |-> <<"payload", url[2], files[url][3] + 1>>]
    /\ UNCHANGED <<catalogs, datasets, distributions, fields, task, clock, ld,
                   lastRun, fetchHistory, obs, budget,
                   schedulerVars>>

----------------------------------------------------------------------------
(* _dataset_model *)

\* lines 58-60 and 79-87: the next dataset is trimmed and upserted
DatasetUpsert(w) ==
    LET f == ld[w]
        t == _trim_dict_fields(CurDataset(f), DATASET_BLACKLIST, DISTRIBUTION)
        a == DatasetUpsertArgs(f.catalog_model, t.trimmed)
        r == update_or_create(datasets, a.key, a.defaults,
                 BlankDataset(t.trimmed[IDENTIFIER] \in INDEXABLE_DATASETS))
        path == <<f.di>>
    IN  /\ f.pc = "datasets"
        /\ f.di <= Len(f.datasets)
        /\ IDENTIFIER \in DOMAIN t.trimmed
        /\ datasets' = r.table
        /\ ld' = [ld EXCEPT ![w] = [f EXCEPT
                !.pc = "distributions", !.datasets[f.di] = t.full_dict,
                !.trimmed_dataset = t.trimmed, !.dataset_model = r.obj,
                !.dataset_created = r.created,
                !.updated_distributions = FALSE, !.xi = 1]]
        /\ obs' = [obs EXCEPT ![w].rows = @ \cup {<<path, r.obj.pk>>},
                              ![w].writes = Append(@, <<path, "upsert">>),
                              ![w].created = IF r.created THEN @ \cup {path}
                                             ELSE @]
        /\ UNCHANGED <<catalogs, distributions, fields, files, task, clock,
                       lastRun, fetchHistory, budget,
                       schedulerVars>>

\* lines 79-86 raise (KeyError on the identifier, or the storage call)
DatasetUpsertRaises(w) ==
    LET f == ld[w]
        t == _trim_dict_fields(CurDataset(f), DATASET_BLACKLIST, DISTRIBUTION)
        h == _catalog_model_except([f EXCEPT !.datasets[f.di] = t.full_dict],
                                   task)
    IN  /\ f.pc = "datasets"
        /\ f.di <= Len(f.datasets)
        /\ IDENTIFIER \notin DOMAIN t.trimmed \/ MayRaise
        /\ ld' = [ld EXCEPT ![w] = h.frame]
        /\ task' = h.task
        /\ obs' = [obs EXCEPT ![w] = Raised(w, <<f.di>>)]
        /\ Fault
        /\ UNCHANGED <<catalogs, datasets, distributions, fields, files, clock,
                       lastRun, fetchHistory, schedulerVars>>

\* lines 98-99 and 61: the dataset is saved and returned to the catalog loop
DatasetSave(w) ==
    LET f == ld[w]
        m == update_model(f.dataset_created, f.trimmed_dataset,
                          f.dataset_model, f.updated_distributions, FALSE)
    IN  /\ f.pc = "distributions"
        /\ f.xi > Len(CurDistributions(f))
        /\ datasets' = save(datasets, m)
        /\ ld' = [ld EXCEPT ![w] = [LeaveDataset(f) EXCEPT
                !.pc = "datasets", !.di = f.di + 1,
                !.updated_datasets =
                    _catalog_model_or(f.updated_datasets, m)]]
        /\ obs' = [obs EXCEPT ![w].saved = @ \cup {<<f.di>>},
                              ![w].writes = Append(@, <<<<f.di>>, "save">>)]
        /\ UNCHANGED <<catalogs, distributions, fields, files, task, clock,
                       lastRun, fetchHistory, budget,
                       schedulerVars>>

\* line 98 raises
DatasetSaveRaises(w) ==
    LET f == ld[w]
        h == _catalog_model_except(f, task)
    IN  /\ f.pc = "distributions"
        /\ f.xi > Len(CurDistributions(f))
        /\ MayRaise
        /\ ld' = [ld EXCEPT ![w] = h.frame]
        /\ task' = h.task
        /\ obs' = [obs EXCEPT ![w] = Raised(w, <<f.di>>)]
        /\ Fault
        /\ UNCHANGED <<catalogs, datasets, distributions, fields, files, clock,
                       lastRun, fetchHistory, schedulerVars>>

----------------------------------------------------------------------------
(* _distribution_model *)

\* lines 88-90 and 105-123: the next distribution is trimmed and upserted
DistributionUpsert(w) ==
    LET f == ld[w]
        t == _trim_dict_fields(CurDistribution(f), DISTRIBUTION_BLACKLIST,
                               FIELD)
        a == DistributionUpsertArgs(f.dataset_model, t.trimmed)
        r == update_or_create(distributions, a.key, a.defaults,
                 BlankDistribution)
        path == <<f.di, f.xi>>
    IN  /\ f.pc = "distributions"
        /\ f.xi <= Len(CurDistributions(f))
        /\ IDENTIFIER \in DOMAIN t.trimmed
        /\ distributions' = r.table
        /\ ld' = [ld EXCEPT ![w] = [f EXCEPT
                !.pc = IF FetchGate(f.dataset_model) THEN "read_file"
                       ELSE "fields",
                !.datasets[f.di].distribution[f.xi] = t.full_dict,
                !.trimmed_distribution = t.trimmed,
                !.distribution_model = r.obj,
                !.distribution_created = r.created, !.data_change = FALSE,
                !.updated_fields = FALSE, !.fi = 1]]
        /\ obs' = [obs EXCEPT ![w].rows = @ \cup {<<path, r.obj.pk>>},
                              ![w].writes = Append(@, <<path, "upsert">>),
                              ![w].created = IF r.created THEN @ \cup {path}
                                             ELSE @]
        /\ fetchHistory' = IF r.created THEN Append(fetchHistory, <<>>)
                           ELSE fetchHistory
        /\ UNCHANGED <<catalogs, datasets, fields, files, task, clock, lastRun,
                       budget, schedulerVars>>

\* lines 105-117 raise
DistributionUpsertRaises(w) ==
    LET f == ld[w]
        t == _trim_dict_fields(CurDistribution(f), DISTRIBUTION_BLACKLIST,
                               FIELD)
        h == _dataset_model_except(
                 [f EXCEPT !.datasets[f.di].distribution[f.xi] = t.full_dict],
                 task)
    IN  /\ f.pc = "distributions"
        /\ f.xi <= Len(CurDistributions(f))
        /\ IDENTIFIER \notin DOMAIN t.trimmed \/ MayRaise
        /\ ld' = [ld EXCEPT ![w] = h.frame]
        /\ task' = h.task
        /\ obs' = [obs EXCEPT ![w] = Raised(w, <<f.di, f.xi>>)]
        /\ Fault
        /\ UNCHANGED <<catalogs, datasets, distributions, fields, files, clock,
                       lastRun, fetchHistory, schedulerVars>>

\* line 121 and _read_file, lines 161-188: the fetch succeeds
ReadFile(w) ==
    LET f == ld[w]
        url == f.distribution_model.download_url
        rf == _read_file(f.read_local, files[url], f.distribution_model, clock)
        path == <<f.di, f.xi>>
    IN  /\ f.pc = "read_file"
        /\ url \in DOMAIN files
        /\ distributions' = IF rf.saved # None
                            THEN save(distributions, rf.saved)
                            ELSE distributions
        /\ ld' = [ld EXCEPT ![w] = [f EXCEPT
                !.pc = "fields", !.distribution_model = rf.model,
                !.data_change = rf.changed]]
        /\ obs' = [obs EXCEPT
                ![w].fetched = @ \cup {<<path, sha512(files[url])>>},
                ![w].writes = IF rf.saved # None
                              THEN Append(@, <<path, "delete">>) ELSE @,
                ![w].changed = IF rf.changed THEN @ \cup {path} ELSE @]
        /\ UNCHANGED <<catalogs, datasets, fields, files, task, clock, lastRun,
                       fetchHistory, budget, schedulerVars>>

\* lines 162 or 168-169 raise: the file cannot be opened, or the response
\* status is not a success
ReadFileRaises(w) ==
    LET f == ld[w]
        h == _dataset_model_except(f, task)
    IN  /\ f.pc = "read_file"
        /\ MayRaise \/ f.distribution_model.download_url \notin DOMAIN files
        /\ ld' = [ld EXCEPT ![w] = h.frame]
        /\ task' = h.task
        /\ obs' = [obs EXCEPT ![w] = [Raised(w, <<f.di, f.xi>>) EXCEPT
                                         !.fetch_failed = @ \cup {<<f.di, f.xi>>}]]
        /\ Fault
        /\ UNCHANGED <<catalogs, datasets, distributions, fields, files, clock,
                       lastRun, fetchHistory, schedulerVars>>

\* lines 124-127 and _field_model, lines 139-150
FieldModel(w) ==
    LET f == ld[w]
        t == _trim_dict_fields(CurField(f), FIELD_BLACKLIST, NoChildren)
        field_meta == json_dumps(t.trimmed)
        r == get_or_create(fields, FieldKey(f.distribution_model, t.full_dict),
                           [metadata |-> field_meta], BlankField)
        m == update_model(r.created, t.trimmed, r.obj, FALSE, FALSE)
        path == <<f.di, f.xi, f.fi>>
    IN  /\ f.pc = "fields"
        /\ f.fi <= Len(CurFields(f))
        /\ fields' = save(r.table, m)
        /\ ld' = [ld EXCEPT ![w] = [f EXCEPT
                !.datasets[f.di].distribution[f.xi].field[f.fi] = t.full_dict,
                !.updated_fields = _distribution_model_or(f.updated_fields, m),
                !.fi = f.fi + 1]]
        /\ obs' = [obs EXCEPT ![w].rows = @ \cup {<<path, m.pk>>},
                              ![w].saved = @ \cup {path},
                              ![w].created = IF r.created THEN @ \cup {path}
                                             ELSE @]
        /\ UNCHANGED <<catalogs, datasets, distributions, files, task, clock,
                       lastRun, fetchHistory, budget,
                       schedulerVars>>

\* lines 139-149 raise
FieldModelRaises(w) ==
    LET f == ld[w]
        h == _distribution_model_except(f, task)
    IN  /\ f.pc = "fields"
        /\ f.fi <= Len(CurFields(f))
        /\ MayRaise
        /\ ld' = [ld EXCEPT ![w] = h.frame]
        /\ task' = h.task
        /\ obs' = [obs EXCEPT ![w] = Raised(w, <<f.di, f.xi, f.fi>>)]
        /\ Fault
        /\ UNCHANGED <<catalogs, datasets, distributions, fields, files, clock,
                       lastRun, fetchHistory, schedulerVars>>

\* lines 134-136 and 91: the distribution is saved and returned to the
\* dataset loop
DistributionSave(w) ==
    LET f == ld[w]
        m == commit_file(
                 update_model(f.distribution_created, f.trimmed_distribution,
                     f.distribution_model, f.updated_fields, f.data_change))
        path == <<f.di, f.xi>>
    IN  /\ f.pc = "fields"
        /\ f.fi > Len(CurFields(f))
        /\ distributions' = save(distributions, m)
        /\ ld' = [ld EXCEPT ![w] = [LeaveDistribution(f) EXCEPT
                !.pc = "distributions", !.xi = f.xi + 1,
                !.updated_distributions =
                    _dataset_model_or(f.updated_distributions, m)]]
        /\ obs' = [obs EXCEPT ![w].saved = @ \cup {path},
                              ![w].writes = Append(@, <<path, "save">>)]
        /\ fetchHistory' =
               IF \E e \in obs[w].fetched : e[1] = path
               THEN [fetchHistory EXCEPT ![m.pk] =
                        Append(@, [data_hash |-> m.data_hash,
                                   indexable |-> m.indexable])]
               ELSE fetchHistory
        /\ UNCHANGED <<catalogs, datasets, fields, files, task, clock, lastRun,
                       budget, schedulerVars>>

\* line 134 raises
DistributionSaveRaises(w) ==
    LET f == ld[w]
        h == _dataset_model_except(f, task)
    IN  /\ f.pc = "fields"
        /\ f.fi > Len(CurFields(f))
        /\ MayRaise
        /\ ld' = [ld EXCEPT ![w] = h.frame]
        /\ task' = h.task
        /\ obs' = [obs EXCEPT ![w] = Raised(w, <<f.di, f.xi>>)]
        /\ Fault
        /\ UNCHANGED <<catalogs, datasets, distributions, fields, files, clock,
                       lastRun, fetchHistory, schedulerVars>>

----------------------------------------------------------------------------
(* _catalog_model after its loop, lines 68-73, and the return of run,      *)
(* lines 40-41                                                             *)

CatalogSave(w) ==
    LET f == ld[w]
        m == update_model(f.created, f.trimmed_catalog, f.catalog_model,
                          f.updated_datasets, FALSE)
    IN  /\ f.pc = "datasets"
        /\ f.di > Len(f.datasets)
        /\ catalogs' = save(catalogs, m)
        /\ task' = IF f.datasets = <<>> /\ DATAJSON_AR_TIME_SERIES_ONLY
                   THEN info(task, <<"No fueron encontrados series de tiempo",
                                     f.catalog_id>>)
                   ELSE task
        /\ ld' = [ld EXCEPT ![w] = [LeaveCatalog(f) EXCEPT
                !.pc = "done", !.returned = m]]
        /\ obs' = [obs EXCEPT
                ![w].saved = @ \cup {<<>>},
                ![w].writes = Append(@, <<<<>>, "save">>),
                ![w].seen = [f.catalog EXCEPT ![DATASET] = f.datasets]]
        /\ lastRun' = [lastRun EXCEPT ![f.catalog_id] =
                [catalog |-> obs[w].input, files |-> obs[w].files,
                 ok |-> obs[w].failed = {}]]
        /\ UNCHANGED <<datasets, distributions, fields, files, clock,
                       fetchHistory, budget, schedulerVars>>

----------------------------------------------------------------------------

Next ==
    \/ \E w \in Loaders, catalog \in Trees,
           catalog_id \in CatalogIds :
           Run(w, catalog, catalog_id)
    \/ PublishFiles
    \/ \E w \in Loaders :
           \/ DatasetUpsert(w)
           \/ DatasetUpsertRaises(w)
           \/ DatasetSave(w)
           \/ DatasetSaveRaises(w)
           \/ DistributionUpsert(w)
           \/ DistributionUpsertRaises(w)
           \/ ReadFile(w)
           \/ ReadFileRaises(w)
           \/ FieldModel(w)
           \/ FieldModelRaises(w)
           \/ DistributionSave(w)
           \/ DistributionSaveRaises(w)
           \/ CatalogSave(w)

Spec == Init /\ [][Next]_vars

----------------------------------------------------------------------------
(* management/commands/schedule_indexation.py: Command.handle on the       *)
(* RepeatableJob table.  Command-line tokens are sequences of characters.  *)

Digits == <<"0", "1", "2", "3", "4", "5", "6", "7", "8", "9">>

DigitValue(c) == (CHOOSE n \in DOMAIN Digits : Digits[n] = c) - 1

\* int(token) does not raise ValueError
IsInt(token) ==
    token # <<>> /\ \A n \in DOMAIN token : \E m \in DOMAIN Digits :
                                               Digits[m] = token[n]

RECURSIVE int(_)
\* int(token), base 10
int(token) ==
    IF Len(token) = 0 THEN 0
    ELSE 10 * int(SubSeq(token, 1, Len(token) - 1))
             + DigitValue(token[Len(token)])

\* the defaults of add_arguments
DefaultCallable ==
    "django_datajsonar.libs.indexing.tasks.schedule_new_read_datajson_task"
DefaultTime == << <<"6">>, <<"0">> >>
DefaultInterval == << <<"2", "4">>, "hours" >>

\* the command lines explored
Names == {"a", "b"}
Callables == {DefaultCallable, "other.task"}
Times == {DefaultTime, << <<"7">>, <<"3", "0">> >>}
IntervalTokens == {<<"1">>, <<"0", "1">>, <<"x">>}
Units == {"hours", "days"}

Options ==
    [name : Names, callable : Callables, time : Times,
     interval : {DefaultInterval} \cup (IntervalTokens \X Units)]

\* the columns of a RepeatableJob before the command writes them
BlankRepeatableJob ==
    [name |-> None, callable |-> None, queue |-> None,
     scheduled_time |-> None, interval |-> None, interval_unit |-> None,
     repeat |-> None]

\* a filter that also asks for the name of the invocation
previously_scheduled_jobs_by_name(table, options) ==
    filter(table, [name |-> options.name, callable |-> options.callable,
                   interval |-> int(options.interval[1]),
                   interval_unit |-> options.interval[2]])

\* lines 40-42: RepeatableJob.objects.filter(callable=, interval=,
\* interval_unit=)
previously_scheduled_jobs(table, options) ==
    filter(table, [callable |-> options.callable,
                   interval |-> int(options.interval[1]),
                   interval_unit |-> options.interval[2]])

\* lines 49-54: tomorrow at the hour and minute asked for
start_time(now, time) == <<"time", now + 1, int(time[1]), int(time[2])>>

\* lines 56-65: the arguments of RepeatableJob.objects.update_or_create
RepeatableJobUpsertArgs(options, now) ==
    [key |-> [name |-> options.name],
     defaults |-> [callable |-> options.callable,
                   queue |-> "indexing",
                   scheduled_time |-> start_time(now, options.time),
                   interval |-> int(options.interval[1]),
                   interval_unit |-> options.interval[2],
                   repeat |-> None]]

Invoked(options, outcome) ==
    invocation' = [options |-> options, before |-> jobs, outcome |-> outcome]

\* lines 41 or 51 raise: int() of an interval that is no number, or, under
\* Python 3, the subscript of the map object
HandleRaises(options) ==
    /\ \/ ~IsInt(options.interval[1])
       \/ /\ IsInt(options.interval[1])
          /\ previously_scheduled_jobs(jobs, options) = {}
          /\ interpreter = 3
    /\ Invoked(options, "raised")
    /\ UNCHANGED <<jobs, interpreter, loaderVars>>

\* lines 44-47: a job with the callable and the interval exists
HandleAlreadyScheduled(options) ==
    /\ IsInt(options.interval[1])
    /\ previously_scheduled_jobs(jobs, options) # {}
    /\ Invoked(options, "already scheduled")
    /\ UNCHANGED <<jobs, interpreter, loaderVars>>

\* lines 49-65: the job of that name is created or rewritten
HandleSchedules(options) ==
    LET a == RepeatableJobUpsertArgs(options, clock)
        r == update_or_create(jobs, a.key, a.defaults, BlankRepeatableJob)
    IN  /\ IsInt(options.interval[1])
        /\ previously_scheduled_jobs(jobs, options) = {}
        /\ interpreter = 2
        /\ jobs' = r.table
        /\ Invoked(options, IF r.created THEN "created" ELSE "rewritten")
        /\ UNCHANGED <<interpreter, loaderVars>>

SchedInit ==
    /\ LoaderInit({FALSE})
    /\ jobs = <<>>
    /\ interpreter \in {2, 3}
    /\ invocation = None

SchedNext ==
    \E options \in Options :
        \/ HandleRaises(options)
        \/ HandleAlreadyScheduled(options)
        \/ HandleSchedules(options)

SchedSpec == SchedInit /\ [][SchedNext]_vars

----------------------------------------------------------------------------
(* What a finished run is measured against: its input tree, the store      *)
(* before it, and what it did                                              *)

Done(w) == ld[w].pc = "done"

DatasetPaths(c) == {<<i>> : i \in 1..Len(c.dataset)}

DistributionPaths(c) ==
    UNION {{<<p[1], j>> : j \in 1..Len(c.dataset[p[1]].distribution)} :
           p \in DatasetPaths(c)}

FieldPaths(c) ==
    UNION {{<<p[1], p[2], k>> :
               k \in 1..Len(c.dataset[p[1]].distribution[p[2]].field)} :
           p \in DistributionPaths(c)}

DatasetAt(c, p) == c.dataset[p[1]]
DistributionAt(c, p) == c.dataset[p[1]].distribution[p[2]]
FieldAt(c, p) == c.dataset[p[1]].distribution[p[2]].field[p[3]]

\* the row a node of the tree was stored in
HasRow(w, p) == \E e \in obs[w].rows : e[1] = p
RowOf(w, p) == (CHOOSE e \in obs[w].rows : e[1] = p)[2]

\* the log entries the run has recorded on the task
RunLog(w) == SubSeq(task, obs[w].loglen + 1, Len(task))

Entries(w, model, identifier) ==
    {n \in DOMAIN RunLog(w) :
        /\ RunLog(w)[n].level = "error"
        /\ RunLog(w)[n].model = model
        /\ RunLog(w)[n].identifier = identifier}

\* the run fetched the payload of the distribution at p and saved the row
FetchedAndSaved(w, p) ==
    /\ p \in obs[w].saved
    /\ \E e \in obs[w].fetched : e[1] = p

FetchedDigest(w, p) == (CHOOSE e \in obs[w].fetched : e[1] = p)[2]

\* the digest a Distribution row held before the run
DigestBefore(w, pk) ==
    IF pk \in DOMAIN obs[w].pre.distributions
    THEN obs[w].pre.distributions[pk].data_hash
    ELSE None

----------------------------------------------------------------------------
(* C1. Partial-failure isolation: when the ingest of a dataset raises, the *)
(* run goes on and no exception reaches the caller of run (the loader is   *)
(* never left in a raised state); at the return run hands back the stored  *)
(* catalog, every dataset that did not raise is saved under the catalog    *)
(* with its title and trimmed metadata, and the run's log holds exactly    *)
(* one error entry of type Dataset with the identifier of each dataset     *)
(* that raised.                                                            *)

C1_DatasetPersisted(w, p) ==
    LET d == DatasetAt(obs[w].input, p)
    IN  /\ p \in obs[w].saved
        /\ HasRow(w, p)
        /\ RowOf(w, p) \in DOMAIN datasets
        /\ LET row == datasets[RowOf(w, p)]
           IN  /\ row.catalog = ld[w].returned.pk
               /\ row.identifier = d.identifier
               /\ row.title = d.title
               /\ row.metadata = json_dumps(
                      _trim_dict_fields(d, DATASET_BLACKLIST,
                                        DISTRIBUTION).trimmed)

C1_PartialFailureIsolation ==
    \A w \in Loaders :
        /\ ld[w].pc \in {"new", "datasets", "distributions", "read_file",
                         "fields", "done"}
        /\ Done(w) =>
            /\ ld[w].returned = catalogs[RowOf(w, <<>>)]
            /\ \A p \in DatasetPaths(obs[w].input) :
                IF p \in obs[w].failed
                THEN Cardinality(Entries(w, "Dataset",
                         DatasetAt(obs[w].input, p).identifier)) = 1
                ELSE C1_DatasetPersisted(w, p)

\* three datasets, the second raised, the first and the third are stored
C1_Witness ==
    \E w \in Loaders :
        /\ Done(w)
        /\ Len(obs[w].input.dataset) = 3
        /\ obs[w].failed = {<<2>>}
        /\ C1_DatasetPersisted(w, <<1>>)
        /\ C1_DatasetPersisted(w, <<3>>)

----------------------------------------------------------------------------
(* C2. Change propagation: at the return of a run, every distribution      *)
(* whose payload content changed in the run and was saved under a dataset  *)
(* that was saved has updated = TRUE, and so have its dataset and the      *)
(* catalog, also when no node was created in the run.                      *)

C2_ChangePropagation ==
    \A w \in Loaders :
        Done(w) =>
            \A p \in obs[w].changed :
                (p \in obs[w].saved /\ <<p[1]>> \in obs[w].saved) =>
                    /\ distributions[RowOf(w, p)].updated
                    /\ datasets[RowOf(w, <<p[1]>>)].updated
                    /\ catalogs[RowOf(w, <<>>)].updated

\* a second harvest of the same tree in which nothing was created or
\* failed and only the payload changed
C2_Witness ==
    \E w \in Loaders :
        /\ Done(w)
        /\ obs[w].prev # None
        /\ obs[w].prev.catalog = obs[w].input
        /\ obs[w].created = {}
        /\ obs[w].failed = {}
        /\ obs[w].changed # {}
        /\ catalogs[RowOf(w, <<>>)].updated

----------------------------------------------------------------------------
(* C3. Idempotence: when a run on a catalog identifier follows a run on    *)
(* the same identifier with the same tree and the same files, and neither  *)
(* run recorded a failure, then at its return the catalog and every        *)
(* dataset, distribution and field of the tree have updated = FALSE, and   *)
(* every distribution has the data_hash and last_updated it had before     *)
(* the run.                                                                *)

C3_Unchanged(w) ==
    /\ obs[w].prev # None
    /\ obs[w].prev.ok
    /\ obs[w].prev.catalog = obs[w].input
    /\ obs[w].prev.files = obs[w].files
    /\ obs[w].failed = {}

C3_Idempotence ==
    \A w \in Loaders :
        (Done(w) /\ C3_Unchanged(w)) =>
            /\ ~catalogs[RowOf(w, <<>>)].updated
            /\ \A p \in DatasetPaths(obs[w].input) :
                   ~datasets[RowOf(w, p)].updated
            /\ \A p \in FieldPaths(obs[w].input) :
                   ~fields[RowOf(w, p)].updated
            /\ \A p \in DistributionPaths(obs[w].input) :
                   LET pk == RowOf(w, p)
                   IN  /\ ~distributions[pk].updated
                       /\ pk \in DOMAIN obs[w].pre.distributions
                       /\ distributions[pk].data_hash =
                              obs[w].pre.distributions[pk].data_hash
                       /\ distributions[pk].last_updated =
                              obs[w].pre.distributions[pk].last_updated

\* the second run fetched a payload again and met a field again
C3_Witness ==
    \E w \in Loaders :
        /\ Done(w)
        /\ C3_Unchanged(w)
        /\ obs[w].fetched # {}
        /\ FieldPaths(obs[w].input) # {}

----------------------------------------------------------------------------
(* C4. At the return of a run, for every distribution whose payload the    *)
(* run fetched and whose row it saved: indexable is TRUE iff the digest of *)
(* the fetched payload differs from the digest the row held before the     *)
(* run, and the row's data_hash is the digest of the fetched payload.      *)
(* Over the saved fetches of a row: the first leaves indexable TRUE, each  *)
(* later one leaves it TRUE iff its digest differs from the one before.    *)

C4_IndexableIffDigestDiffers ==
    /\ \A w \in Loaders :
        Done(w) =>
            \A p \in DistributionPaths(obs[w].input) :
                FetchedAndSaved(w, p) =>
                    LET pk == RowOf(w, p)
                    IN  /\ distributions[pk].indexable =
                               (FetchedDigest(w, p) # DigestBefore(w, pk))
                        /\ distributions[pk].data_hash = FetchedDigest(w, p)
    /\ \A pk \in DOMAIN fetchHistory :
           \A n \in DOMAIN fetchHistory[pk] :
               fetchHistory[pk][n].indexable =
                   (n = 1 \/ fetchHistory[pk][n].data_hash #
                                 fetchHistory[pk][n - 1].data_hash)

\* first fetch, unchanged file, changed file: TRUE, FALSE, TRUE
C4_Witness ==
    \E pk \in DOMAIN fetchHistory :
        /\ Len(fetchHistory[pk]) = 3
        /\ fetchHistory[pk][1].indexable
        /\ ~fetchHistory[pk][2].indexable
        /\ fetchHistory[pk][3].indexable
        /\ distributions[pk].indexable

----------------------------------------------------------------------------
(* C5. A run sets indexable only through a successful fetch.  As stated,   *)
(* for the distributions a run visits: at the return, indexable is TRUE    *)
(* only if the run fetched the payload of the distribution.                *)

C5_NeverTrueWithoutFetch ==
    \A w \in Loaders :
        Done(w) =>
            \A p \in DistributionPaths(obs[w].input) :
                (HasRow(w, p) /\ distributions[RowOf(w, p)].indexable) =>
                    \E e \in obs[w].fetched : e[1] = p

\* the rows the run fetched and saved
FetchedRows(w) ==
    {RowOf(w, p) : p \in {q \in DistributionPaths(obs[w].input) :
                              FetchedAndSaved(w, q)}}

IndexableBefore(w, pk) ==
    /\ pk \in DOMAIN obs[w].pre.distributions
    /\ obs[w].pre.distributions[pk].indexable

(* C5, as the loader keeps it: at the return of a run, every stored        *)
(* distribution the run did not both fetch and save (its fetch failed, its *)
(* dataset is not eligible, its ingest raised, or the run did not visit    *)
(* it) has the indexable flag it had before the run, FALSE when the run    *)
(* created it; one the run fetched and saved is indexable iff the fetched  *)
(* digest differs from the one stored before.                              *)
C5_IndexableOnlyByFetch ==
    \A w \in Loaders :
        Done(w) =>
            /\ \A pk \in DOMAIN distributions \ FetchedRows(w) :
                   distributions[pk].indexable = IndexableBefore(w, pk)
            /\ \A p \in DistributionPaths(obs[w].input) :
                   FetchedAndSaved(w, p) =>
                       (distributions[RowOf(w, p)].indexable =>
                            FetchedDigest(w, p) # DigestBefore(w, RowOf(w, p)))

\* a distribution whose fetch failed in the run ends it with the
\* indexable = TRUE of an earlier run
C5_Witness ==
    \E w \in Loaders :
        /\ Done(w)
        /\ \E p \in obs[w].fetch_failed :
               /\ HasRow(w, p)
               /\ distributions[RowOf(w, p)].indexable
               /\ IndexableBefore(w, RowOf(w, p))

----------------------------------------------------------------------------
(* C6. Scoped uniqueness: in every state, no two datasets of one catalog   *)
(* and no two distributions of one dataset share an identifier; a run      *)
(* never changes the parent or the identifier of a stored dataset or       *)
(* distribution, leaves every dataset of another catalog and every         *)
(* distribution of another catalog's datasets as they were, and stores     *)
(* each node it visits in a row owned by the row of its own parent.        *)

C6_Owned(w, e) ==
    LET p == e[1]
        pk == e[2]
    IN  CASE Len(p) = 0 -> catalogs[pk].identifier = obs[w].catalog_id
          [] Len(p) = 1 ->
                /\ datasets[pk].catalog = RowOf(w, <<>>)
                /\ datasets[pk].identifier =
                       DatasetAt(obs[w].input, p).identifier
          [] Len(p) = 2 ->
                /\ distributions[pk].dataset = RowOf(w, <<p[1]>>)
                /\ distributions[pk].identifier =
                       DistributionAt(obs[w].input, p).identifier
          [] OTHER -> fields[pk].distribution = RowOf(w, <<p[1], p[2]>>)

C6_ScopedUniqueness ==
    /\ \A a, b \in DOMAIN datasets :
           (/\ datasets[a].catalog = datasets[b].catalog
            /\ datasets[a].identifier = datasets[b].identifier) => a = b
    /\ \A a, b \in DOMAIN distributions :
           (/\ distributions[a].dataset = distributions[b].dataset
            /\ distributions[a].identifier = distributions[b].identifier)
               => a = b
    /\ \A w \in Loaders :
           ld[w].pc # "new" =>
               /\ \A e \in obs[w].rows : C6_Owned(w, e)
               /\ \A pk \in DOMAIN obs[w].pre.datasets :
                      /\ datasets[pk].catalog =
                             obs[w].pre.datasets[pk].catalog
                      /\ datasets[pk].identifier =
                             obs[w].pre.datasets[pk].identifier
                      /\ datasets[pk].catalog # RowOf(w, <<>>) =>
                             datasets[pk] = obs[w].pre.datasets[pk]
               /\ \A pk \in DOMAIN obs[w].pre.distributions :
                      /\ distributions[pk].dataset =
                             obs[w].pre.distributions[pk].dataset
                      /\ distributions[pk].identifier =
                             obs[w].pre.distributions[pk].identifier
                      /\ datasets[distributions[pk].dataset].catalog
                             # RowOf(w, <<>>) =>
                             distributions[pk] =
                                 obs[w].pre.distributions[pk]

\* the same dataset identifier under two catalogs and the same distribution
\* identifier under two datasets, at the return of the run that stored the
\* second dataset
C6_Witness ==
    \E w \in Loaders :
        /\ Done(w)
        /\ \E a, b \in DOMAIN datasets :
               /\ datasets[a].identifier = datasets[b].identifier
               /\ datasets[a].catalog # datasets[b].catalog
               /\ datasets[b].catalog = RowOf(w, <<>>)
               /\ b \notin DOMAIN obs[w].pre.datasets
        /\ \E a, b \in DOMAIN distributions :
               /\ distributions[a].identifier = distributions[b].identifier
               /\ distributions[a].dataset # distributions[b].dataset

----------------------------------------------------------------------------
(* C7. Blacklist enforcement: in every state the metadata stored for a     *)
(* catalog, dataset, distribution or field holds no key of the blacklist   *)
(* of its level and not the key of its children (dataset, distribution,    *)
(* field); at the return of a run the tree the caller passed is as it was  *)
(* passed.                                                                 *)

C7_Clean(table, excluded) ==
    \A pk \in DOMAIN table : MetadataKeys(table[pk].metadata) \cap excluded = {}

C7_BlacklistEnforcement ==
    /\ C7_Clean(catalogs, CATALOG_BLACKLIST \cup {DATASET})
    /\ C7_Clean(datasets, DATASET_BLACKLIST \cup {DISTRIBUTION})
    /\ C7_Clean(distributions, DISTRIBUTION_BLACKLIST \cup {FIELD})
    /\ C7_Clean(fields, FIELD_BLACKLIST)
    /\ \A w \in Loaders : Done(w) => obs[w].seen = obs[w].input

\* a run stored metadata at the four levels from dicts that hold a
\* blacklisted key and, above the fields, the children key
C7_Witness ==
    \E w \in Loaders :
        /\ Done(w)
        /\ \E p \in FieldPaths(obs[w].input) :
               /\ {<<>>, <<p[1]>>, <<p[1], p[2]>>, p} \subseteq obs[w].saved
               /\ DOMAIN obs[w].input \cap CATALOG_BLACKLIST # {}
               /\ DOMAIN DatasetAt(obs[w].input, p) \cap DATASET_BLACKLIST # {}
               /\ DOMAIN DistributionAt(obs[w].input, p)
                      \cap DISTRIBUTION_BLACKLIST # {}
               /\ DOMAIN FieldAt(obs[w].input, p) \cap FIELD_BLACKLIST # {}
               /\ MetadataKeys(catalogs[RowOf(w, <<>>)].metadata) # {}
               /\ MetadataKeys(datasets[RowOf(w, <<p[1]>>)].metadata) # {}
               /\ MetadataKeys(
                      distributions[RowOf(w, <<p[1], p[2]>>)].metadata) # {}
               /\ MetadataKeys(fields[RowOf(w, p)].metadata) # {}

----------------------------------------------------------------------------
(* C8. Duplicate schedule prevention: in every state reached by            *)
(* invocations of schedule_indexation, no two RepeatableJob rows have the  *)
(* same callable, interval count and interval unit; and an invocation made *)
(* while a row with its callable, interval count and unit was stored, by   *)
(* any name, has written nothing: the table is as it was before.           *)

C8_SameSchedule(job, options) ==
    /\ job.callable = options.callable
    /\ job.interval = int(options.interval[1])
    /\ job.interval_unit = options.interval[2]

C8_DuplicateSchedulePrevention ==
    /\ \A a, b \in DOMAIN jobs :
           (/\ jobs[a].callable = jobs[b].callable
            /\ jobs[a].interval = jobs[b].interval
            /\ jobs[a].interval_unit = jobs[b].interval_unit) => a = b
    /\ (/\ invocation # None
        /\ IsInt(invocation.options.interval[1])
        /\ \E pk \in DOMAIN invocation.before :
               C8_SameSchedule(invocation.before[pk], invocation.options))
           => jobs = invocation.before

\* two jobs are stored, and the last invocation asked, under the name of
\* one, with another first run and with the count written with a leading
\* zero, for the schedule of the other
C8_Witness ==
    /\ Len(jobs) = 2
    /\ invocation # None
    /\ invocation.outcome = "already scheduled"
    /\ \E pk \in DOMAIN jobs :
           /\ C8_SameSchedule(jobs[pk], invocation.options)
           /\ jobs[pk].name # invocation.options.name
           /\ jobs[pk].scheduled_time #
                  start_time(clock, invocation.options.time)
           /\ invocation.options.interval[1] = <<"0", "1">>

----------------------------------------------------------------------------
(* C9. The flag of the root.  As stated: at the return of a run, the       *)
(* catalog's updated flag is TRUE iff beneath it the run created a         *)
(* dataset, distribution or field or met a changed payload, subtrees whose *)
(* ingest raised included.                                                 *)

C9_UpdatedIffChangedBeneath ==
    \A w \in Loaders :
        Done(w) =>
            (catalogs[RowOf(w, <<>>)].updated =
                 (obs[w].created \ {<<>>} # {} \/ obs[w].changed # {}))

\* the node at p and every node above it, the catalog apart
Chain(p) == {SubSeq(p, 1, n) : n \in 1..Len(p)}

\* the creations and content changes of the run on nodes that were saved
\* under ancestors that were saved
Counted(w) ==
    {p \in (obs[w].created \cup obs[w].changed) \ {<<>>} :
        Chain(p) \subseteq obs[w].saved}

(* C9, as the loader keeps it: at the return of a run, the catalog's       *)
(* updated flag is TRUE iff the run created the catalog, or created a      *)
(* dataset, distribution or field or met a changed payload at a node       *)
(* whose ingest, and that of every node above it, completed.               *)
C9_UpdatedIffCreatedOrCounted ==
    \A w \in Loaders :
        Done(w) =>
            (catalogs[RowOf(w, <<>>)].updated =
                 (<<>> \in obs[w].created \/ Counted(w) # {}))

\* a catalog that was already stored ends a run with updated = TRUE for a
\* creation or change at least two levels down
C9_Witness ==
    \E w \in Loaders :
        /\ Done(w)
        /\ <<>> \notin obs[w].created
        /\ catalogs[RowOf(w, <<>>)].updated
        /\ \E p \in Counted(w) : Len(p) >= 2

----------------------------------------------------------------------------
(* C10. The flag of every node.  As stated: at the return of a run, for    *)
(* every stored catalog, dataset, distribution and field, updated equals   *)
(* the OR of: created in this run, some stored direct child has updated =  *)
(* TRUE, and (distributions) the content changed in this run.              *)

CreatedRows(w, level) ==
    {e[2] : e \in {x \in obs[w].rows :
                      Len(x[1]) = level /\ x[1] \in obs[w].created}}

ChangedRows(w) ==
    {e[2] : e \in {x \in obs[w].rows : x[1] \in obs[w].changed}}

C10_UpdatedIsOrOfStored ==
    \A w \in Loaders :
        Done(w) =>
            /\ \A pk \in DOMAIN catalogs :
                   catalogs[pk].updated =
                       (\/ pk \in CreatedRows(w, 0)
                        \/ \E c \in DOMAIN datasets :
                               datasets[c].catalog = pk /\ datasets[c].updated)
            /\ \A pk \in DOMAIN datasets :
                   datasets[pk].updated =
                       (\/ pk \in CreatedRows(w, 1)
                        \/ \E c \in DOMAIN distributions :
                               /\ distributions[c].dataset = pk
                               /\ distributions[c].updated)
            /\ \A pk \in DOMAIN distributions :
                   distributions[pk].updated =
                       (\/ pk \in CreatedRows(w, 2)
                        \/ pk \in ChangedRows(w)
                        \/ \E c \in DOMAIN fields :
                               /\ fields[c].distribution = pk
                               /\ fields[c].updated)
            /\ \A pk \in DOMAIN fields :
                   fields[pk].updated = (pk \in CreatedRows(w, 3))

\* the rows the run saved at the end of their ingest
SavedRows(w, level) ==
    {e[2] : e \in {x \in obs[w].rows :
                      Len(x[1]) = level /\ x[1] \in obs[w].saved}}

\* the children of the node at p in the tree whose ingest completed
SavedChildren(w, p) ==
    {q \in obs[w].saved : Len(q) = Len(p) + 1 /\ SubSeq(q, 1, Len(p)) = p}

UpdatedBefore(table, pk) == pk \in DOMAIN table /\ table[pk].updated

(* C10, as the loader keeps it: at the return of a run, for every node of  *)
(* the tree whose ingest completed, updated equals the OR of: created in   *)
(* this run, some child in the tree whose ingest completed has updated =   *)
(* TRUE, and (distributions) the content changed in this run; every other  *)
(* stored row has the flag it had before the run, FALSE when the run       *)
(* created it.                                                             *)
C10_UpdatedIsOrOfCompleted ==
    \A w \in Loaders :
        Done(w) =>
            /\ catalogs[RowOf(w, <<>>)].updated =
                   (\/ <<>> \in obs[w].created
                    \/ \E q \in SavedChildren(w, <<>>) :
                           datasets[RowOf(w, q)].updated)
            /\ \A p \in DatasetPaths(obs[w].input) \cap obs[w].saved :
                   datasets[RowOf(w, p)].updated =
                       (\/ p \in obs[w].created
                        \/ \E q \in SavedChildren(w, p) :
                               distributions[RowOf(w, q)].updated)
            /\ \A p \in DistributionPaths(obs[w].input) \cap obs[w].saved :
                   distributions[RowOf(w, p)].updated =
                       (\/ p \in obs[w].created
                        \/ p \in obs[w].changed
                        \/ \E q \in SavedChildren(w, p) :
                               fields[RowOf(w, q)].updated)
            /\ \A p \in FieldPaths(obs[w].input) \cap obs[w].saved :
                   fields[RowOf(w, p)].updated = (p \in obs[w].created)
            /\ \A pk \in DOMAIN catalogs \ SavedRows(w, 0) :
                   catalogs[pk].updated =
                       UpdatedBefore(obs[w].pre.catalogs, pk)
            /\ \A pk \in DOMAIN datasets \ SavedRows(w, 1) :
                   datasets[pk].updated =
                       UpdatedBefore(obs[w].pre.datasets, pk)
            /\ \A pk \in DOMAIN distributions \ SavedRows(w, 2) :
                   distributions[pk].updated =
                       UpdatedBefore(obs[w].pre.distributions, pk)
            /\ \A pk \in DOMAIN fields \ SavedRows(w, 3) :
                   fields[pk].updated = UpdatedBefore(obs[w].pre.fields, pk)

\* a stored distribution gets updated = TRUE from a field created under it,
\* next to a row the run did not save that keeps updated = TRUE
C10_Witness ==
    \E w \in Loaders :
        /\ Done(w)
        /\ \E p \in DistributionPaths(obs[w].input) \cap obs[w].saved :
               /\ p \notin obs[w].created \cup obs[w].changed
               /\ distributions[RowOf(w, p)].updated
               /\ \E q \in SavedChildren(w, p) : q \in obs[w].created
        /\ \E pk \in DOMAIN datasets \ SavedRows(w, 1) : datasets[pk].updated

----------------------------------------------------------------------------
(* C11. As stated: at the return of a run, a distribution whose payload    *)
(* the run fetched with the digest already stored holds the stored payload *)
(* it held before the run: the payload is neither deleted nor rewritten,   *)
(* in local and in remote mode.                                            *)

C11_PayloadReplacedOnlyOnChange ==
    \A w \in Loaders :
        Done(w) =>
            \A p \in DistributionPaths(obs[w].input) :
                (/\ FetchedAndSaved(w, p)
                 /\ p \notin obs[w].changed
                 /\ RowOf(w, p) \in DOMAIN obs[w].pre.distributions) =>
                    distributions[RowOf(w, p)].data_file =
                        obs[w].pre.distributions[RowOf(w, p)].data_file

----------------------------------------------------------------------------
(* C12. Fetch-failure handling: at the return of a run, for every          *)
(* distribution whose fetch raised: the run's log holds one Distribution   *)
(* error entry with its identifier for each distribution of that           *)
(* identifier that raised, every other distribution of its dataset was     *)
(* processed (saved, or raised and logged), and its stored data_hash,      *)
(* indexable, last_updated and data_file are those from before the run     *)
(* (the column defaults when the run created the row).                     *)

DistributionBefore(w, pk) ==
    IF pk \in DOMAIN obs[w].pre.distributions
    THEN obs[w].pre.distributions[pk]
    ELSE BlankDistribution

\* the four columns that describe the payload of a Distribution row
PayloadState(row) ==
    <<row.data_hash, row.indexable, row.last_updated, row.data_file>>

C12_FetchFailureHandling ==
    \A w \in Loaders :
        Done(w) =>
            \A p \in obs[w].fetch_failed :
                LET identifier == DistributionAt(obs[w].input, p).identifier
                IN  /\ p \in obs[w].failed
                    /\ Cardinality(Entries(w, "Distribution", identifier)) =
                           Cardinality({q \in obs[w].failed :
                               /\ Len(q) = 2
                               /\ DistributionAt(obs[w].input, q).identifier
                                      = identifier})
                    /\ \A q \in DistributionPaths(obs[w].input) :
                           q[1] = p[1] => q \in obs[w].saved \cup obs[w].failed
                    /\ HasRow(w, p)
                    /\ PayloadState(distributions[RowOf(w, p)]) =
                           PayloadState(DistributionBefore(w, RowOf(w, p)))

\* the fetch of a distribution that holds a payload raised, and the
\* distribution after it was saved
C12_Witness ==
    \E w \in Loaders :
        /\ Done(w)
        /\ <<1, 1>> \in obs[w].fetch_failed
        /\ <<1, 2>> \in obs[w].saved
        /\ RowOf(w, <<1, 1>>) \in DOMAIN obs[w].pre.distributions
        /\ distributions[RowOf(w, <<1, 1>>)].data_file # NoFile
        /\ Cardinality(Entries(w, "Distribution",
               DistributionAt(obs[w].input, <<1, 1>>).identifier)) = 1

----------------------------------------------------------------------------
(* C13. As stated: at the return of a run, for every dataset, distribution *)
(* and field whose ingest raised, every sibling was processed and the      *)
(* run's log holds an error entry with the entity type of the node and its *)
(* identifier: the identifier of a dataset or distribution, the id of a    *)
(* field.                                                                  *)

Siblings(c, p) ==
    {q \in DatasetPaths(c) \cup DistributionPaths(c) \cup FieldPaths(c) :
        Len(q) = Len(p) /\ SubSeq(q, 1, Len(q) - 1) = SubSeq(p, 1, Len(p) - 1)}

C13_FailureLoggedWithIdentifier ==
    \A w \in Loaders :
        Done(w) =>
            \A p \in obs[w].failed :
                /\ Siblings(obs[w].input, p) \subseteq
                       obs[w].saved \cup obs[w].failed
                /\ CASE Len(p) = 1 ->
                           Entries(w, "Dataset",
                               DatasetAt(obs[w].input, p).identifier) # {}
                     [] Len(p) = 2 ->
                           Entries(w, "Distribution",
                               DistributionAt(obs[w].input, p).identifier) # {}
                     [] OTHER ->
                           Entries(w, "Field",
                               FieldAt(obs[w].input, p).id) # {}

----------------------------------------------------------------------------
(* C14. As stated: from the return of _read_file to the save of the        *)
(* distribution, the stored data_hash, indexable, last_updated and         *)
(* data_file of the distribution are those from before the run:            *)
(* _read_file has written nothing.                                         *)

C14_ReadFilePersistsNothing ==
    \A w \in Loaders :
        (/\ ld[w].pc = "fields"
         /\ \E e \in obs[w].fetched : e[1] = <<ld[w].di, ld[w].xi>>) =>
            PayloadState(distributions[ld[w].distribution_model.pk]) =
                PayloadState(
                    DistributionBefore(w, ld[w].distribution_model.pk))

----------------------------------------------------------------------------
(* The writes of a run, in order: the upsert of a node, the save of the    *)
(* instance done by data_file.delete() inside _read_file, and the save     *)
(* done by update_model at the end of the node's ingest.                   *)

Writes(w, p, kind) ==
    {n \in DOMAIN obs[w].writes : obs[w].writes[n] = <<p, kind>>}

\* the saves of the model instance of the node at p, after its upsert
InstanceSaves(w, p) == Writes(w, p, "delete") \cup Writes(w, p, "save")

Children(c, p) ==
    {q \in DatasetPaths(c) \cup DistributionPaths(c) \cup FieldPaths(c) :
        Len(q) = Len(p) + 1 /\ SubSeq(q, 1, Len(p)) = p}

\* the path of a catalog, dataset or distribution the run has reached
Reached(w) == {e[1] : e \in {x \in obs[w].rows : Len(x[1]) <= 2}}

(* C15. Ordering of writes: in every state of a run, a catalog, dataset or *)
(* distribution that the run has upserted is saved at most once, exactly   *)
(* once when its ingest has completed, and it has been saved only if every *)
(* one of its children in the input tree has been processed (saved, or     *)
(* raised and logged).                                                     *)
C15_PersistedOnceAfterChildren ==
    \A w \in Loaders :
        ld[w].pc # "new" =>
            \A p \in Reached(w) :
                /\ Cardinality(InstanceSaves(w, p)) <= 1
                /\ p \in obs[w].saved =>
                       Cardinality(InstanceSaves(w, p)) = 1
                /\ InstanceSaves(w, p) # {} =>
                       Children(obs[w].input, p) \subseteq
                           obs[w].saved \cup obs[w].failed

----------------------------------------------------------------------------
(* C16. Payload fetching is gated on the parent dataset: in every state of *)
(* a run, a distribution the run has upserted under a dataset that is not  *)
(* marked indexable has had no fetch, successful or failed, no content     *)
(* change, and its stored data_hash, indexable, last_updated and data_file *)
(* are those from before the run; under a dataset marked indexable the     *)
(* fetch of an upserted distribution is either the step the loader is at,  *)
(* or it has been made, and no field of the distribution is ingested and   *)
(* the distribution is not saved unless the fetch succeeded before.        *)

Fetched(w, p) == \E e \in obs[w].fetched : e[1] = p

AtReadFile(w, p) == ld[w].pc = "read_file" /\ <<ld[w].di, ld[w].xi>> = p

DatasetIndexable(w, p) == datasets[RowOf(w, <<p[1]>>)].indexable

C16_FetchGatedOnDataset ==
    \A w \in Loaders :
        ld[w].pc # "new" =>
            \A p \in {q \in Reached(w) : Len(q) = 2} :
                IF DatasetIndexable(w, p)
                THEN /\ \/ AtReadFile(w, p)
                        \/ Fetched(w, p)
                        \/ p \in obs[w].fetch_failed
                     /\ \A e \in obs[w].rows :
                            Len(e[1]) = 3 /\ SubSeq(e[1], 1, 2) = p
                                => Fetched(w, p)
                     /\ p \in obs[w].saved => Fetched(w, p)
                     /\ p \in obs[w].fetch_failed => ~Fetched(w, p)
                ELSE /\ ~AtReadFile(w, p)
                     /\ ~Fetched(w, p)
                     /\ p \notin obs[w].fetch_failed
                     /\ p \notin obs[w].changed
                     /\ PayloadState(distributions[RowOf(w, p)]) =
                            PayloadState(DistributionBefore(w, RowOf(w, p)))

\* a run ends that fetched a distribution of an indexable dataset before its
\* field, and saved a distribution of a dataset that is not indexable
C16_Witness ==
    \E w \in Loaders :
        /\ Done(w)
        /\ \E p \in obs[w].saved :
               /\ Len(p) = 2
               /\ DatasetIndexable(w, p)
               /\ Fetched(w, p)
               /\ \E q \in obs[w].saved : Len(q) = 3 /\ SubSeq(q, 1, 2) = p
        /\ \E p \in obs[w].saved :
               /\ Len(p) = 2
               /\ ~DatasetIndexable(w, p)
               /\ ~Fetched(w, p)

----------------------------------------------------------------------------
(* Two DatabaseLoader objects harvesting the same catalog identifier at    *)
(* the same time, as two workers do.  The loader takes no lock and opens   *)
(* no transaction (lines 30-41): each storage call of one run is a step,   *)
(* and the steps of the two runs interleave freely.  The trees have one    *)
(* dataset with one distribution, with or without a field, and no call     *)
(* raises.                                                                 *)

RaceLoaders == {"loader", "other"}

RaceCatalogId == <<"c", 1>>

RaceTrees == {CatalogDict(1, 1, nf) : nf \in 0..MaxFields}

RaceInit ==
    /\ catalogs = <<>>
    /\ datasets = <<>>
    /\ distributions = <<>>
    /\ fields = <<>>
    /\ files = [url \in Urls |-> <<"payload", url[2], 1>>]
    /\ task = <<>>
    /\ clock = 0
    /\ ld \in [RaceLoaders -> {InitFrame(b) : b \in BOOLEAN}]
    /\ obs = [w \in RaceLoaders |-> InitObs]
    /\ lastRun = [c \in CatalogIds |-> None]
    /\ fetchHistory = <<>>
    /\ budget = [nodes |-> 0, faults |-> 0]
    /\ jobs = <<>>
    /\ interpreter = 2
    /\ invocation = None

RaceNext ==
    \/ \E w \in RaceLoaders, catalog \in RaceTrees :
           Run(w, catalog, RaceCatalogId)
    \/ \E w \in RaceLoaders :
           \/ DatasetUpsert(w)
           \/ DatasetSave(w)
           \/ DistributionUpsert(w)
           \/ ReadFile(w)
           \/ FieldModel(w)
           \/ DistributionSave(w)
           \/ CatalogSave(w)

RaceSpec == RaceInit /\ [][RaceNext]_vars

----------------------------------------------------------------------------
(* C17. Two concurrent runs on the same catalog identifier are not         *)
(* protected: whatever the other run has stored meanwhile, a run decides   *)
(* that the payload changed by comparing the fetched digest with the       *)
(* digest its own copy of the row got at its upsert, and its final save    *)
(* writes the data_hash, indexable and updated values of that copy over    *)
(* the stored row.                                                         *)
C17_LastWriteWins ==
    [][\A w \in RaceLoaders :
          LET f == ld[w]
          IN  /\ (f.pc = "read_file" /\ ld'[w].pc = "fields") =>
                     ld'[w].data_change =
                         (f.distribution_model.data_hash #
                              sha512(files[f.distribution_model.download_url]))
              /\ (f.pc = "fields" /\ ld'[w].pc = "distributions") =>
                     LET row == distributions'[f.distribution_model.pk]
                     IN  /\ row.data_hash = f.distribution_model.data_hash
                         /\ row.indexable = f.distribution_model.indexable
                         /\ row.updated = (\/ f.distribution_created
                                           \/ f.updated_fields
                                           \/ f.data_change)]_vars

\* the lost update: both runs have ended; one of them fetched the payload,
\* found the stored digest equal and saved indexable and updated false; the
\* other, which had upserted the row before, then saved the same digest as a
\* change, and the stored row is marked indexable and updated again
C17_Witness ==
    \E a \in RaceLoaders, b \in RaceLoaders :
        /\ a # b
        /\ Done(a) /\ Done(b)
        /\ FetchedAndSaved(a, <<1, 1>>) /\ FetchedAndSaved(b, <<1, 1>>)
        /\ RowOf(a, <<1, 1>>) = RowOf(b, <<1, 1>>)
        /\ <<1, 1>> \in obs[a].changed
        /\ <<1, 1>> \notin obs[b].changed
        /\ LET pk == RowOf(a, <<1, 1>>)
               h == fetchHistory[pk]
               n == Len(h)
           IN  /\ n >= 2
               /\ h[n].data_hash = h[n - 1].data_hash
               /\ ~h[n - 1].indexable
               /\ h[n].indexable
               /\ distributions[pk].data_hash = FetchedDigest(b, <<1, 1>>)
               /\ distributions[pk].indexable
               /\ distributions[pk].updated

----------------------------------------------------------------------------
(* C18. The store only grows: in every state of a run, every catalog,      *)
(* dataset, distribution and field stored before the run is still stored,  *)
(* and a row that stands for no node of the run's tree (its catalog is not *)
(* the run's, or the identifiers of its chain are not on a path of the     *)
(* tree) is exactly as it was before the run.                              *)

\* the row stored before the run stands for a node of the run's tree
CatalogInRun(w, pk) ==
    obs[w].pre.catalogs[pk].identifier = obs[w].catalog_id

DatasetInRun(w, pk) ==
    LET row == obs[w].pre.datasets[pk]
    IN  /\ CatalogInRun(w, row.catalog)
        /\ \E p \in DatasetPaths(obs[w].input) :
               DatasetAt(obs[w].input, p).identifier = row.identifier

DistributionInRun(w, pk) ==
    LET row == obs[w].pre.distributions[pk]
        parent == obs[w].pre.datasets[row.dataset]
    IN  /\ CatalogInRun(w, parent.catalog)
        /\ \E p \in DistributionPaths(obs[w].input) :
               /\ DatasetAt(obs[w].input, p).identifier = parent.identifier
               /\ DistributionAt(obs[w].input, p).identifier = row.identifier

FieldInRun(w, pk) ==
    LET row == obs[w].pre.fields[pk]
        parent == obs[w].pre.distributions[row.distribution]
        grandparent == obs[w].pre.datasets[parent.dataset]
    IN  /\ CatalogInRun(w, grandparent.catalog)
        /\ \E p \in FieldPaths(obs[w].input) :
               /\ DatasetAt(obs[w].input, p).identifier
                      = grandparent.identifier
               /\ DistributionAt(obs[w].input, p).identifier
                      = parent.identifier
               /\ FieldAt(obs[w].input, p).id = row.identifier
               /\ FieldAt(obs[w].input, p).title = row.title

C18_StoreOnlyGrows ==
    \A w \in Loaders :
        ld[w].pc # "new" =>
            LET pre == obs[w].pre
            IN  /\ \A pk \in DOMAIN pre.catalogs :
                       /\ pk \in DOMAIN catalogs
                       /\ ~CatalogInRun(w, pk) =>
                              catalogs[pk] = pre.catalogs[pk]
                /\ \A pk \in DOMAIN pre.datasets :
                       /\ pk \in DOMAIN datasets
                       /\ ~DatasetInRun(w, pk) =>
                              datasets[pk] = pre.datasets[pk]
                /\ \A pk \in DOMAIN pre.distributions :
                       /\ pk \in DOMAIN distributions
                       /\ ~DistributionInRun(w, pk) =>
                              distributions[pk] = pre.distributions[pk]
                /\ \A pk \in DOMAIN pre.fields :
                       /\ pk \in DOMAIN fields
                       /\ ~FieldInRun(w, pk) =>
                              fields[pk] = pre.fields[pk]

\* a run on a catalog ends whose tree no longer has a distribution, with a
\* field, that an earlier run of the same catalog stored: both rows are there
\* as they were
C18_Witness ==
    \E w \in Loaders :
        /\ Done(w)
        /\ \E x \in DOMAIN obs[w].pre.distributions :
               /\ ~DistributionInRun(w, x)
               /\ CatalogInRun(w,
                      obs[w].pre.datasets[
                          obs[w].pre.distributions[x].dataset].catalog)
               /\ distributions[x] = obs[w].pre.distributions[x]
               /\ distributions[x].updated
               /\ \E k \in DOMAIN obs[w].pre.fields :
                      /\ obs[w].pre.fields[k].distribution = x
                      /\ fields[k] = obs[w].pre.fields[k]

----------------------------------------------------------------------------
(* C19. In every state of a run, for a distribution whose payload fetch    *)
(* failed in the run: no field of it has been ingested or attempted (none  *)
(* reached, created, saved or failed), the stored fields of its row are    *)
(* those from before the run, unchanged, and its row is stored with the    *)
(* title and the download URL of the tree, as the upsert wrote them.       *)

FieldsOf(table, x) == {k \in DOMAIN table : table[k].distribution = x}

C19_FailedFetchSkipsFields ==
    \A w \in Loaders :
        ld[w].pc # "new" =>
            \A p \in obs[w].fetch_failed :
                /\ \A q \in FieldPaths(obs[w].input) :
                       SubSeq(q, 1, 2) = p =>
                           /\ ~HasRow(w, q)
                           /\ q \notin obs[w].created \cup obs[w].saved
                                           \cup obs[w].failed
                /\ HasRow(w, p)
                /\ LET x == RowOf(w, p)
                       node == DistributionAt(obs[w].input, p)
                   IN  /\ FieldsOf(fields, x) = FieldsOf(obs[w].pre.fields, x)
                       /\ \A k \in FieldsOf(fields, x) :
                              fields[k] = obs[w].pre.fields[k]
                       /\ distributions[x].title = node.title
                       /\ distributions[x].download_url = node.downloadURL

\* a run ends in which the fetch of a distribution it created failed: the
\* distribution has a field in the tree and none in the store
C19_Witness ==
    \E w \in Loaders :
        /\ Done(w)
        /\ \E p \in obs[w].fetch_failed \cap obs[w].created :
               /\ Children(obs[w].input, p) # {}
               /\ FieldsOf(fields, RowOf(w, p)) = {}
               /\ distributions[RowOf(w, p)].download_url =
                      DistributionAt(obs[w].input, p).downloadURL
               /\ Entries(w, "Distribution",
                      DistributionAt(obs[w].input, p).identifier) # {}

----------------------------------------------------------------------------
(* C20. In every state of a run, a dataset or distribution whose ingest    *)
(* raised after its upsert has the stored updated flag it had before the   *)
(* run, FALSE when the run created it, and counts for nothing in its       *)
(* parent: the flag the dataset loop and the distribution loop accumulate  *)
(* is the OR of the updated flags of the children whose ingest completed,  *)
(* and so is, with the parent's own creation, the flag of a parent saved   *)
(* after the failure.                                                      *)

\* some child of the node at p whose ingest completed is stored as updated
SavedChildUpdated(w, p) ==
    \E q \in SavedChildren(w, p) :
        IF Len(q) = 1 THEN datasets[RowOf(w, q)].updated
        ELSE distributions[RowOf(w, q)].updated

\* the datasets and distributions that raised after their upsert
FailedAfterUpsert(w) ==
    {p \in obs[w].failed : Len(p) \in {1, 2} /\ HasRow(w, p)}

C20_FailedNodeCountsForNothing ==
    \A w \in Loaders :
        /\ ld[w].pc \in {"datasets", "distributions", "read_file", "fields"} =>
               ld[w].updated_datasets = SavedChildUpdated(w, <<>>)
        /\ ld[w].pc \in {"distributions", "read_file", "fields"} =>
               ld[w].updated_distributions =
                   SavedChildUpdated(w, <<ld[w].di>>)
        /\ ld[w].pc # "new" =>
               \A p \in FailedAfterUpsert(w) :
                   /\ Len(p) = 1 =>
                          /\ datasets[RowOf(w, p)].updated =
                                 UpdatedBefore(obs[w].pre.datasets,
                                               RowOf(w, p))
                          /\ <<>> \in obs[w].saved =>
                                 catalogs[RowOf(w, <<>>)].updated =
                                     (\/ <<>> \in obs[w].created
                                      \/ SavedChildUpdated(w, <<>>))
                   /\ Len(p) = 2 =>
                          /\ distributions[RowOf(w, p)].updated =
                                 UpdatedBefore(obs[w].pre.distributions,
                                               RowOf(w, p))
                          /\ <<p[1]>> \in obs[w].saved =>
                                 datasets[RowOf(w, <<p[1]>>)].updated =
                                     (\/ <<p[1]>> \in obs[w].created
                                      \/ SavedChildUpdated(w, <<p[1]>>))

\* a run ends in which a distribution it created raised after its upsert:
\* the distribution and its dataset, stored before the run, are not updated
C20_Witness ==
    \E w \in Loaders :
        /\ Done(w)
        /\ \E p \in FailedAfterUpsert(w) \cap obs[w].created :
               /\ Len(p) = 2
               /\ ~distributions[RowOf(w, p)].updated
               /\ <<p[1]>> \in obs[w].saved \ obs[w].created
               /\ ~datasets[RowOf(w, <<p[1]>>)].updated
               /\ ~catalogs[RowOf(w, <<>>)].updated

====
